---- MODULE Spec2Model ----
(***************************************************************************)
(* A model of sudokuAnnealing.go: the cost function, the neighbour         *)
(* generator, the random initialization, the fixed-temperature iterator    *)
(* (one goroutine per call) and the coordinator anneal with its two        *)
(* unbuffered channels.                                                    *)
(*                                                                         *)
(* Grids are Go slices of slices, so a grid variable holds a reference.    *)
(* The model keeps a heap (address -> grid); copyPuzzle and the make calls *)
(* allocate, and unreachable grids are collected.  Indices are 0-based as  *)
(* in the source: puzzle[i][j].                                            *)
(*                                                                         *)
(* Temperatures are float64 in the source.  The model keeps them in fixed  *)
(* point, in units of 1e-6, so that finalTemperature (1e-5) is 10; the     *)
(* cooling rate is kept in hundredths.  Costs are float64 holding whole    *)
(* numbers and are kept as integers.                                       *)
(***************************************************************************)
EXTENDS Integers, Sequences, FiniteSets, Bags, TLC

VARIABLES
    heap,                    \* address -> grid: the slices the program holds
    originalPuzzle,          \* main: reference to the clue grid
    blockXDim, blockYDim,    \* main: -d flag
    baseTemperature,         \* anneal: parameter, cooled in place (line 149)
    coolingRate,             \* anneal: parameter (hundredths)
    internalIterations,      \* anneal: parameter
    swapCount,               \* anneal: parameter
    concurrentAnnealerCount, \* anneal: parameter
    puzzleCost,              \* main: the cost being printed at line 436
    pc,                      \* position of the main goroutine
    ri,                      \* frame of randomInitialization
    initialSolution,         \* anneal: local (reference)
    annealerSolutions,       \* anneal: local, rung -> reference
    annealerCosts,           \* anneal: local, rung -> cost
    i,                       \* anneal: index of the fan-out loop
    stored,                  \* rungs whose slot was written in this outer step
    task,                    \* rung -> frame of its annealerInternalIterator goroutine
    solvedPuzzle,            \* anneal: result (reference)
    solutionFound            \* anneal: result

vars == <<heap, originalPuzzle, blockXDim, blockYDim,
          baseTemperature, coolingRate, internalIterations, swapCount,
          concurrentAnnealerCount, puzzleCost, pc, ri, initialSolution,
          annealerSolutions, annealerCosts, i, stored, task, solvedPuzzle,
          solutionFound>>

inputs == <<originalPuzzle, blockXDim, blockYDim, coolingRate,
            internalIterations, swapCount, concurrentAnnealerCount>>

----------------------------------------------------------------------------
(* Bounds of the model *)

MaxIterations == 2      \* internalIterations ranges over 1..MaxIterations
MaxAnnealers == 2       \* concurrentAnnealerCount ranges over 1..MaxAnnealers
CostEdits == 2          \* cells edited in a 4x4 grid given to costFunction

(* Program constant, line 111: 0.00001 in units of 1e-6 *)
finalTemperature == 10

(* The nil slice: the zero value of a [][]int *)
NULL == 0

----------------------------------------------------------------------------
(* Arithmetic helpers *)

Abs(x) == IF x < 0 THEN -x ELSE x

RECURSIVE SumOver(_, _)
SumOver(f, S) ==
    IF S = {} THEN 0
    ELSE LET x == CHOOSE y \in S : TRUE IN f[x] + SumOver(f, S \ {x})

Idx(n) == 0 .. (n - 1)

(* len(puzzle) of a [][]int *)
Len2(puzzle) == Cardinality(DOMAIN puzzle)

----------------------------------------------------------------------------
(* costFunction, lines 234-310 *)

(* math.Abs(float64(count - 1)), lines 269, 274, 304 *)
DeviationNoAbs(count) == count - 1

Deviation(count) == Abs(count - 1)

(* rowCounts of row dim1 after the loop of lines 252-265: index number-1 *)
rowCounts(puzzle, dim1, puzzleDim) ==
    [k \in Idx(puzzleDim) |->
        Cardinality({dim2 \in Idx(puzzleDim) : puzzle[dim1][dim2] = k + 1})]

(* columnCounts of column dim1 after the loop of lines 252-265 *)
columnCounts(puzzle, dim1, puzzleDim) ==
    [k \in Idx(puzzleDim) |->
        Cardinality({dim2 \in Idx(puzzleDim) : puzzle[dim2][dim1] = k + 1})]

(* lines 293-294: the cell of block (bi, bj) visited at step k *)
horizontalIndexInBlock(bi, k, bx) == k % bx

horizontalIndex(bi, k, bx) == (bi * bx) + (k % bx)

verticalIndex(bj, k, bx, by) == (bj * by) + (k \div bx)

BlockCell(bi, bj, k, bx, by) ==
    <<horizontalIndex(bi, k, bx), verticalIndex(bj, k, bx, by)>>

(* blockCounts of block (bi, bj) after the loop of lines 291-300 *)
blockCounts(puzzle, bi, bj, bx, by) ==
    [m \in Idx(bx * by) |->
        Cardinality({k \in Idx(bx * by) :
            puzzle[horizontalIndex(bi, k, bx)][verticalIndex(bj, k, bx, by)] = m + 1})]

CountCost(counts) ==
    SumOver([k \in DOMAIN counts |-> Deviation(counts[k])], DOMAIN counts)

(* An index out of range (run-time panic) at lines 257, 263 or 298: a cell *)
(* value above puzzleDim.                                                  *)
costFunctionPanics(puzzle, bx, by) ==
    \E r \in DOMAIN puzzle : \E c \in DOMAIN puzzle[r] : puzzle[r][c] > bx * by

costFunction(puzzle, bx, by) ==
    LET puzzleDim == bx * by
        lines == [dim1 \in Idx(puzzleDim) |->
                    CountCost(rowCounts(puzzle, dim1, puzzleDim))
                    + CountCost(columnCounts(puzzle, dim1, puzzleDim))]
        horizontalBlockCount == by
        verticalBlockCount == bx
        blocks == [b \in Idx(horizontalBlockCount) \X Idx(verticalBlockCount) |->
                    CountCost(blockCounts(puzzle, b[1], b[2], bx, by))]
    IN  SumOver(lines, DOMAIN lines) + SumOver(blocks, DOMAIN blocks)

----------------------------------------------------------------------------
(* printPuzzle, lines 81-100: what it draws between the cells *)

(* line 84: a line of dashes is printed before row r *)
RowSeparatorBefore(r, by) == r > 0 /\ r % by = 0

(* line 88: a bar is printed before column c *)
ColumnBarBefore(c, bx) == c > 0 /\ c % bx = 0

(* Two cells are shown in one block when no line of dashes and no bar lies *)
(* between them                                                            *)
ShownTogether(cell1, cell2, bx, by) ==
    /\ \A r \in Idx(bx * by) :
            RowSeparatorBefore(r, by) => (cell1[1] < r <=> cell2[1] < r)
    /\ \A c \in Idx(bx * by) :
            ColumnBarBefore(c, bx) => (cell1[2] < c <=> cell2[2] < c)

(* The blocks of the grid as printed *)
PrintedBlocks(bx, by) ==
    LET cells == Idx(bx * by) \X Idx(bx * by)
    IN  {{cell2 \in cells : ShownTogether(cell1, cell2, bx, by)} : cell1 \in cells}

----------------------------------------------------------------------------
(* The heap of grids *)

(* make([][]int, ...): the lowest free address *)
NewAddr(h) ==
    CHOOSE a \in 1 .. (Cardinality(DOMAIN h) + 1) :
        a \notin DOMAIN h /\ \A b \in 1 .. (a - 1) : b \in DOMAIN h

Store(h, a, g) == [x \in (DOMAIN h) \cup {a} |-> IF x = a THEN g ELSE h[x]]

(* copyPuzzle, lines 368-380: a fresh grid of len(originalPuzzle) rows, each *)
(* a fresh row filled cell by cell from the source row.                      *)
copyPuzzle(puzzle) ==
    LET puzzleDim == Len2(puzzle)
    IN  [r \in Idx(puzzleDim) |-> [c \in Idx(puzzleDim) |-> puzzle[r][c]]]

(* line 372: the grid copyPuzzle returns is a new one *)
copyPuzzleInPlace(h, source) == source

copyPuzzleTarget(h, source) == NewAddr(h)

(* A grid written as a sequence of rows, as readInOneLine lays it out *)
Grid(rows) ==
    [r \in Idx(Len(rows)) |-> [c \in Idx(Len(rows)) |-> rows[r + 1][c + 1]]]

(* A goroutine frame of annealerInternalIterator that is not running *)
IdleTask ==
    [pc |-> "idle", candidateSolution |-> NULL, temperature |-> 0,
     updatedSolution |-> NULL, updatedCost |-> 0, i |-> 0,
     newCandidateSolution |-> NULL, newCandidateCost |-> 0, swap |-> 0,
     randomXIndex1 |-> 0, randomYIndex1 |-> 0,
     randomXIndex2 |-> 0, randomYIndex2 |-> 0,
     sendSolution |-> NULL, sendCost |-> 0]

(* The frame of randomInitialization before and after its call; draws is *)
(* the sequence of values rand.Intn has returned at line 356             *)
IdleInit ==
    [remainingNumbers |-> <<>>, emptySpots |-> <<>>, initializedPuzzle |-> NULL,
     ranged |-> {}, remainingNumber |-> 0, count |-> 0, i |-> 0,
     draws |-> <<>>]

(* The references anneal and its goroutines hold, in a fixed order *)
TaskRefs(fr) ==
    <<fr.candidateSolution, fr.updatedSolution, fr.newCandidateSolution,
      fr.sendSolution>>

RECURSIVE AllTaskRefs(_, _)
AllTaskRefs(tk, r) ==
    IF r \notin DOMAIN tk THEN <<>> ELSE TaskRefs(tk[r]) \o AllTaskRefs(tk, r + 1)

Refs(slots, tk) ==
    <<originalPuzzle, initialSolution>>
        \o [k \in 1 .. Cardinality(DOMAIN slots) |-> slots[k - 1]]
        \o AllTaskRefs(tk, 0)

(* The garbage collector.  Grids no reference leads to are dropped, and the *)
(* grids kept are renumbered in the order of Refs: the program can only     *)
(* compare two references for identity, which a renumbering keeps.          *)
Collect(h, slots, tk) ==
    LET refs == Refs(slots, tk)
        live == {refs[k] : k \in DOMAIN refs} \ {NULL}
        first(a) == CHOOSE k \in DOMAIN refs :
                        refs[k] = a /\ \A j \in 1 .. (k - 1) : refs[j] # a
        moved == [a \in live \cup {NULL} |->
                    IF a = NULL THEN NULL
                    ELSE Cardinality({b \in live : first(b) <= first(a)})]
    IN  [heap |-> [n \in {moved[a] : a \in live} |->
                        h[CHOOSE a \in live : moved[a] = n]],
         annealerSolutions |-> [r \in DOMAIN slots |-> moved[slots[r]]],
         task |-> [r \in DOMAIN tk |->
                    [tk[r] EXCEPT
                        !.candidateSolution = moved[@],
                        !.updatedSolution = moved[@],
                        !.newCandidateSolution = moved[@],
                        !.sendSolution = moved[@]]]]

----------------------------------------------------------------------------
(* Inputs: what main hands to anneal *)

Puzzles ==
    { [bx |-> 2, by |-> 1, rows |-> << <<1, 0>>, <<0, 0>> >>],
      [bx |-> 2, by |-> 1, rows |-> << <<1, 2>>, <<2, 1>> >>],
      [bx |-> 2, by |-> 1, rows |-> << <<1, 1>>, <<1, 0>> >>],
      [bx |-> 2, by |-> 1, rows |-> << <<3, 0>>, <<0, 0>> >>],
      [bx |-> 2, by |-> 2, rows |-> << <<0, 0, 3, 4>>, <<0, 4, 1, 2>>,
                                        <<2, 1, 4, 3>>, <<4, 3, 2, 1>> >>],
      [bx |-> 2, by |-> 2, rows |-> << <<1, 2, 3, 4>>, <<3, 4, 1, 2>>,
                                        <<2, 1, 4, 3>>, <<4, 3, 2, 1>> >>] }

(* -i, -s and -a in their documented ranges.  On a 2x2 grid: every iteration count and every number of *)
(* annealers up to the bounds, with one or two swaps.  On a 4x4 grid: one   *)
(* iteration of one swap, on one or two annealers.                          *)
IterationCounts(p) == IF Len(p.rows) > 2 THEN {1} ELSE 1 .. MaxIterations

SwapCounts(p) == IF Len(p.rows) > 2 THEN {1} ELSE {1, 2}

AnnealerCounts(p) == IF Len(p.rows) > 2 THEN {1, 2} ELSE 1 .. MaxAnnealers

(* -t: 1e-5 (the floor itself), 1e-3 (one outer step at -c 0.01) and 0.05  *)
(* (two outer steps, the second at 5e-4), in units of 1e-6                  *)
BaseTemperatures == {finalTemperature, 1000, 50000}

(* -c: 0.01, in hundredths *)
CoolingRates == {1}

(* The flags in their documented ranges *)
StandardConfigs ==
    UNION {{[puzzle |-> p, baseTemperature |-> t, coolingRate |-> c,
             internalIterations |-> n, swapCount |-> s,
             concurrentAnnealerCount |-> a] :
                t \in BaseTemperatures, c \in CoolingRates,
                n \in IterationCounts(p), s \in SwapCounts(p),
                a \in AnnealerCounts(p)} : p \in Puzzles}

(* One 2x2 puzzle with blanks, one outer step at -c 0.01, one iteration of *)
(* one swap on one annealer: the run the configurations below depart from.  *)
PlainConfig ==
    [puzzle |-> [bx |-> 2, by |-> 1, rows |-> << <<1, 0>>, <<0, 0>> >>],
     baseTemperature |-> 1000, coolingRate |-> 1, internalIterations |-> 1,
     swapCount |-> 1, concurrentAnnealerCount |-> 1]

(* Flags main parses (lines 404-408) and hands to anneal unchecked: -a 0,   *)
(* at a base temperature above and at the floor; -c 0, -c -0.01 and -c 1;   *)
(* -i 0 and -i -1; -s 0 and -s -1.                                          *)
DegenerateConfigs ==
    {[PlainConfig EXCEPT !.concurrentAnnealerCount = 0, !.baseTemperature = t] :
        t \in {finalTemperature, 1000}}
    \cup {[PlainConfig EXCEPT !.coolingRate = c] : c \in {0, -1, 100}}
    \cup {[PlainConfig EXCEPT !.internalIterations = n] : n \in {0, -1}}
    \cup {[PlainConfig EXCEPT !.swapCount = k] : k \in {0, -1}}

(* -a 3: a ladder of three rungs *)
LadderConfigs == {[PlainConfig EXCEPT !.concurrentAnnealerCount = 3]}

Configs == StandardConfigs \cup DegenerateConfigs \cup LadderConfigs

Init ==
    \E cfg \in Configs :
        /\ heap = Store(<<>>, 1, Grid(cfg.puzzle.rows))
        /\ originalPuzzle = 1
        /\ blockXDim = cfg.puzzle.bx
        /\ blockYDim = cfg.puzzle.by
        /\ baseTemperature = cfg.baseTemperature
        /\ coolingRate = cfg.coolingRate
        /\ internalIterations = cfg.internalIterations
        /\ swapCount = cfg.swapCount
        /\ concurrentAnnealerCount = cfg.concurrentAnnealerCount
        /\ puzzleCost = 0
        /\ pc = "main"
        /\ ri = IdleInit
        /\ initialSolution = NULL
        /\ annealerSolutions = <<>>
        /\ annealerCosts = <<>>
        /\ i = 0
        /\ stored = {}
        /\ task = [r \in Idx(cfg.concurrentAnnealerCount) |-> IdleTask]
        /\ solvedPuzzle = NULL
        /\ solutionFound = FALSE

----------------------------------------------------------------------------
(* main, lines 432-439 *)

(* line 436, not in training mode: the cost of the clue grid is printed *)
MainPuzzleCost ==
    /\ pc = "main"
    /\ ~costFunctionPanics(heap[originalPuzzle], blockXDim, blockYDim)
    /\ puzzleCost' = costFunction(heap[originalPuzzle], blockXDim, blockYDim)
    /\ pc' = "printed"
    /\ UNCHANGED <<heap, inputs, baseTemperature, ri, initialSolution,
                   annealerSolutions, annealerCosts, i, stored, task,
                   solvedPuzzle, solutionFound>>

(* line 436 on a clue above puzzleDim: index out of range *)
MainPuzzleCostPanic ==
    /\ pc = "main"
    /\ costFunctionPanics(heap[originalPuzzle], blockXDim, blockYDim)
    /\ pc' = "panic"
    /\ UNCHANGED <<heap, inputs, baseTemperature, puzzleCost, ri,
                   initialSolution, annealerSolutions, annealerCosts, i,
                   stored, task, solvedPuzzle, solutionFound>>

(* line 439: anneal is called, after the print or, in training mode, at once *)
MainAnneal ==
    /\ pc \in {"main", "printed"}
    /\ puzzleCost' = 0
    /\ pc' = "anneal"
    /\ UNCHANGED <<heap, inputs, baseTemperature, ri, initialSolution,
                   annealerSolutions, annealerCosts, i, stored, task,
                   solvedPuzzle, solutionFound>>

----------------------------------------------------------------------------
(* randomInitialization, lines 321-365 *)

Occurrences(puzzle, number) ==
    Cardinality({cell \in Idx(Len2(puzzle)) \X Idx(Len2(puzzle)) :
                    puzzle[cell[1]][cell[2]] = number})

(* The map after lines 333-350: a key per digit 1..puzzleDim, set to       *)
(* puzzleDim, and one decrement per clue (line 343 adds the key of a clue  *)
(* above puzzleDim, starting from the zero value).                         *)
ScanRemainingNumbers(puzzle) ==
    LET puzzleDim == Len2(puzzle)
        clues == {puzzle[cell[1]][cell[2]] :
                    cell \in Idx(puzzleDim) \X Idx(puzzleDim)} \ {0}
    IN  [number \in (1 .. puzzleDim) \cup clues |->
            (IF number \in 1 .. puzzleDim THEN puzzleDim ELSE 0)
            - Occurrences(puzzle, number)]

(* emptySpots after lines 339-350: the blank cells in row-major order *)
RECURSIVE ScanEmptySpots(_, _)
ScanEmptySpots(puzzle, k) ==
    LET puzzleDim == Len2(puzzle)
        row == k \div puzzleDim
        col == k % puzzleDim
    IN  IF k >= puzzleDim * puzzleDim THEN <<>>
        ELSE (IF puzzle[row][col] > 0 THEN <<>> ELSE << <<row, col>> >>)
             \o ScanEmptySpots(puzzle, k + 1)

(* initializedPuzzle after lines 330-350: the clues, zero elsewhere *)
ScanInitializedPuzzle(puzzle) ==
    [r \in Idx(Len2(puzzle)) |-> [c \in Idx(Len2(puzzle)) |->
        IF puzzle[r][c] > 0 THEN puzzle[r][c] ELSE 0]]

(* lines 359-360: the drawn spot is overwritten by the last, the last dropped *)
RemoveSpotKeepLast(emptySpots, spotIndex) ==
    [emptySpots EXCEPT ![spotIndex + 1] = emptySpots[Len(emptySpots)]]

RemoveSpot(emptySpots, spotIndex) ==
    SubSeq([emptySpots EXCEPT ![spotIndex + 1] = emptySpots[Len(emptySpots)]],
           1, Len(emptySpots) - 1)

SetCell(puzzle, row, col, value) ==
    [puzzle EXCEPT ![row] = [puzzle[row] EXCEPT ![col] = value]]

(* line 108 and lines 323-350 *)
RandomInitializationScan ==
    /\ pc = "anneal"
    /\ LET target == NewAddr(heap)
       IN  /\ ri' = [remainingNumbers |-> ScanRemainingNumbers(heap[originalPuzzle]),
                     emptySpots |-> ScanEmptySpots(heap[originalPuzzle], 0),
                     initializedPuzzle |-> target,
                     ranged |-> {}, remainingNumber |-> 0, count |-> 0, i |-> 0,
                     draws |-> <<>>]
           /\ heap' = Store(heap, target, ScanInitializedPuzzle(heap[originalPuzzle]))
    /\ pc' = "init"
    /\ UNCHANGED <<inputs, baseTemperature, puzzleCost, initialSolution,
                   annealerSolutions, annealerCosts, i, stored, task,
                   solvedPuzzle, solutionFound>>

(* line 354: the range over the map yields its next key, in no fixed order *)
RandomInitializationRange ==
    /\ pc = "init"
    /\ ri.i >= ri.count
    /\ \E number \in (DOMAIN ri.remainingNumbers) \ ri.ranged :
        ri' = [ri EXCEPT !.ranged = @ \cup {number},
                         !.remainingNumber = number,
                         !.count = ri.remainingNumbers[number],
                         !.i = 0]
    /\ UNCHANGED <<heap, inputs, baseTemperature, puzzleCost, pc,
                   initialSolution, annealerSolutions, annealerCosts, i,
                   stored, task, solvedPuzzle, solutionFound>>

(* lines 355-361: one digit is placed on a random remaining spot *)
RandomInitializationPlace ==
    /\ pc = "init"
    /\ ri.i < ri.count
    /\ Len(ri.emptySpots) > 0
    /\ \E spotIndex \in Idx(Len(ri.emptySpots)) :
        LET spot == ri.emptySpots[spotIndex + 1]
        IN  /\ heap' = [heap EXCEPT ![ri.initializedPuzzle] =
                            SetCell(@, spot[1], spot[2], ri.remainingNumber)]
            /\ ri' = [ri EXCEPT !.emptySpots = RemoveSpot(@, spotIndex),
                                !.i = @ + 1,
                                !.draws = Append(@, spotIndex)]
    /\ UNCHANGED <<inputs, baseTemperature, puzzleCost, pc, initialSolution,
                   annealerSolutions, annealerCosts, i, stored, task,
                   solvedPuzzle, solutionFound>>

(* line 356 with no spot left: rand.Intn(0) panics *)
RandomInitializationPanic ==
    /\ pc = "init"
    /\ ri.i < ri.count
    /\ Len(ri.emptySpots) = 0
    /\ pc' = "panic"
    /\ UNCHANGED <<heap, inputs, baseTemperature, puzzleCost, ri,
                   initialSolution, annealerSolutions, annealerCosts, i,
                   stored, task, solvedPuzzle, solutionFound>>

(* line 364 and line 108: the range is over, the grid is returned *)
RandomInitializationReturn ==
    /\ pc = "init"
    /\ ri.i >= ri.count
    /\ (DOMAIN ri.remainingNumbers) \ ri.ranged = {}
    /\ initialSolution' = ri.initializedPuzzle
    /\ ri' = IdleInit
    /\ pc' = "setup"
    /\ UNCHANGED <<heap, inputs, baseTemperature, puzzleCost,
                   annealerSolutions, annealerCosts, i, stored, task,
                   solvedPuzzle, solutionFound>>

(* The orders in which the range of line 354 can yield the keys of the map *)
RangeOrders(remainingNumbers) ==
    {order \in [1 .. Cardinality(DOMAIN remainingNumbers) -> DOMAIN remainingNumbers] :
        \A a, b \in DOMAIN order : a # b => order[a] # order[b]}

(* lines 354-362 as a function of the order of the range and of the values *)
(* rand.Intn returns: Head(order) is the key being placed, count the       *)
(* placements it still gets, Head(draws) the next value of line 356.       *)
RECURSIVE PlaceInOrder(_, _, _, _, _, _)
PlaceInOrder(puzzle, emptySpots, remainingNumbers, order, count, draws) ==
    IF order = <<>> THEN puzzle
    ELSE IF count <= 0
    THEN LET rest == Tail(order)
         IN  PlaceInOrder(puzzle, emptySpots, remainingNumbers, rest,
                          IF rest = <<>> THEN 0 ELSE remainingNumbers[Head(rest)],
                          draws)
    ELSE LET spot == emptySpots[Head(draws) + 1]
         IN  PlaceInOrder(SetCell(puzzle, spot[1], spot[2], Head(order)),
                          RemoveSpot(emptySpots, Head(draws)),
                          remainingNumbers, order, count - 1, Tail(draws))

(* The grid randomInitialization returns (line 364) for one order of the *)
(* range and one sequence of draws                                       *)
InitializedWith(puzzle, order, draws) ==
    PlaceInOrder(ScanInitializedPuzzle(puzzle), ScanEmptySpots(puzzle, 0),
                 ScanRemainingNumbers(puzzle), order,
                 ScanRemainingNumbers(puzzle)[order[1]], draws)

----------------------------------------------------------------------------
(* anneal, lines 106-153 *)

(* math.Pow(2, float64(k)) *)
RECURSIVE Pow2(_)
Pow2(k) == IF k <= 0 THEN 1 ELSE 2 * Pow2(k - 1)

(* lines 121-124: rung k and the rungs above it get their copy of source *)
RECURSIVE SetupSlots(_, _, _, _, _)
SetupSlots(h, slots, source, k, count) ==
    IF k >= count THEN [heap |-> h, annealerSolutions |-> slots]
    ELSE LET target == copyPuzzleTarget(h, source)
         IN  SetupSlots(Store(h, target, copyPuzzle(h[source])),
                        [r \in (DOMAIN slots) \cup {k} |->
                            IF r = k THEN target ELSE slots[r]],
                        source, k + 1, count)

(* lines 110-124 *)
AnnealSetup ==
    /\ pc = "setup"
    /\ LET made == SetupSlots(heap, <<>>, initialSolution, 0,
                              concurrentAnnealerCount)
       IN  /\ heap' = made.heap
           /\ annealerSolutions' = made.annealerSolutions
    /\ annealerCosts' = [r \in Idx(concurrentAnnealerCount) |->
                            costFunction(heap[initialSolution], blockXDim, blockYDim)]
    /\ pc' = "loop"
    /\ UNCHANGED <<inputs, baseTemperature, puzzleCost, ri, initialSolution,
                   i, stored, task, solvedPuzzle, solutionFound>>

(* line 127, condition true: an outer step begins *)
AnnealLoop ==
    /\ pc = "loop"
    /\ baseTemperature > finalTemperature
    /\ i' = 0
    /\ stored' = {}
    /\ pc' = "fanout"
    /\ UNCHANGED <<heap, inputs, baseTemperature, puzzleCost, ri,
                   initialSolution, annealerSolutions, annealerCosts, task,
                   solvedPuzzle, solutionFound>>

(* line 127, condition false, and line 152 *)
AnnealReturnUnsolved ==
    /\ pc = "loop"
    /\ ~(baseTemperature > finalTemperature)
    /\ 0 \in DOMAIN annealerSolutions
    /\ solvedPuzzle' = annealerSolutions[0]
    /\ solutionFound' = FALSE
    /\ pc' = "done"
    /\ UNCHANGED <<heap, inputs, baseTemperature, puzzleCost, ri,
                   initialSolution, annealerSolutions, annealerCosts, i,
                   stored, task>>

(* lines 129-130: the go statement for rung i; anneal goes on to line 131 *)
FanoutBoundShort == concurrentAnnealerCount - 1

AnnealFanoutBound == concurrentAnnealerCount

AnnealLaunch ==
    /\ pc = "fanout"
    /\ i < AnnealFanoutBound
    /\ task' = [task EXCEPT ![i] =
                    [IdleTask EXCEPT !.pc = "start",
                                     !.candidateSolution = annealerSolutions[i],
                                     !.temperature = baseTemperature * Pow2(i)]]
    /\ pc' = "recvSolution"
    /\ UNCHANGED <<heap, inputs, baseTemperature, puzzleCost, ri,
                   initialSolution, annealerSolutions, annealerCosts, i,
                   stored, solvedPuzzle, solutionFound>>

(* line 131: the unbuffered channel annealerSolution hands over a grid *)
AnnealRecvSolution ==
    /\ pc = "recvSolution"
    /\ \E t \in DOMAIN task :
        /\ task[t].pc = "sendSolution"
        /\ LET kept == Collect(heap,
                    [annealerSolutions EXCEPT ![i] = task[t].sendSolution],
                    [task EXCEPT ![t].pc = "sendCost", ![t].sendSolution = NULL])
           IN  /\ heap' = kept.heap
               /\ annealerSolutions' = kept.annealerSolutions
               /\ task' = kept.task
    /\ pc' = "recvCost"
    /\ UNCHANGED <<inputs, baseTemperature, puzzleCost, ri, initialSolution,
                   annealerCosts, i, stored, solvedPuzzle, solutionFound>>

(* line 132: the unbuffered channel annealerCost hands over a cost; the *)
(* goroutine returns (lines 171, 192) and the loop of line 129 steps.   *)
AnnealRecvCost ==
    /\ pc = "recvCost"
    /\ \E t \in DOMAIN task :
        /\ task[t].pc = "sendCost"
        /\ annealerCosts' = [annealerCosts EXCEPT ![i] = task[t].sendCost]
        /\ LET kept == Collect(heap, annealerSolutions,
                               [task EXCEPT ![t] = IdleTask])
           IN  /\ heap' = kept.heap
               /\ annealerSolutions' = kept.annealerSolutions
               /\ task' = kept.task
    /\ stored' = stored \cup {i}
    /\ i' = i + 1
    /\ pc' = "fanout"
    /\ UNCHANGED <<inputs, baseTemperature, puzzleCost, ri, initialSolution,
                   solvedPuzzle, solutionFound>>

(* lines 137-140: rungs k and k-1 trade grid and cost *)
ExchangeGridsOnly(slots, k) ==
    IF slots.annealerCosts[k] < slots.annealerCosts[k - 1]
    THEN [slots EXCEPT !.annealerSolutions =
                [@ EXCEPT ![k] = slots.annealerSolutions[k - 1],
                          ![k - 1] = slots.annealerSolutions[k]]]
    ELSE slots

Exchange(slots, k) ==
    IF slots.annealerCosts[k] < slots.annealerCosts[k - 1]
    THEN [annealerSolutions |->
                [slots.annealerSolutions EXCEPT
                    ![k] = slots.annealerSolutions[k - 1],
                    ![k - 1] = slots.annealerSolutions[k]],
          annealerCosts |->
                [slots.annealerCosts EXCEPT
                    ![k] = slots.annealerCosts[k - 1],
                    ![k - 1] = slots.annealerCosts[k]]]
    ELSE slots

(* lines 136-141: the pass from rung k down to rung 1 *)
RECURSIVE ExchangePass(_, _)
ExchangePass(slots, k) ==
    IF k > 0 THEN ExchangePass(Exchange(slots, k), k - 1) ELSE slots

(* line 136: the pass starts at the hottest rung *)
ExchangeFirstBelowTop == concurrentAnnealerCount - 2

ExchangeFirst == concurrentAnnealerCount - 1

(* line 129, condition false, and lines 136-141 *)
AnnealExchange ==
    /\ pc = "fanout"
    /\ ~(i < AnnealFanoutBound)
    /\ LET passed == ExchangePass([annealerSolutions |-> annealerSolutions,
                                   annealerCosts |-> annealerCosts],
                                  ExchangeFirst)
       IN  /\ annealerSolutions' = passed.annealerSolutions
           /\ annealerCosts' = passed.annealerCosts
    /\ pc' = "check"
    /\ UNCHANGED <<heap, inputs, baseTemperature, puzzleCost, ri,
                   initialSolution, i, stored, task, solvedPuzzle,
                   solutionFound>>

(* lines 144-146 *)
AnnealReturnSolved ==
    /\ pc = "check"
    /\ 0 \in DOMAIN annealerCosts
    /\ annealerCosts[0] = 0
    /\ solvedPuzzle' = annealerSolutions[0]
    /\ solutionFound' = TRUE
    /\ pc' = "done"
    /\ UNCHANGED <<heap, inputs, baseTemperature, puzzleCost, ri,
                   initialSolution, annealerSolutions, annealerCosts, i,
                   stored, task>>

(* line 144, condition false, and line 149 *)
AnnealCool ==
    /\ pc = "check"
    /\ 0 \in DOMAIN annealerCosts
    /\ annealerCosts[0] # 0
    /\ baseTemperature' = (baseTemperature * coolingRate) \div 100
    /\ pc' = "loop"
    /\ UNCHANGED <<heap, inputs, puzzleCost, ri, initialSolution,
                   annealerSolutions, annealerCosts, i, stored, task,
                   solvedPuzzle, solutionFound>>

(* lines 144 and 152 on slices of length 0 (make with                     *)
(* concurrentAnnealerCount = 0, lines 118-119): index out of range        *)
AnnealIndexPanic ==
    /\ \/ pc = "check" /\ 0 \notin DOMAIN annealerCosts
       \/ /\ pc = "loop"
          /\ ~(baseTemperature > finalTemperature)
          /\ 0 \notin DOMAIN annealerSolutions
    /\ pc' = "panic"
    /\ UNCHANGED <<heap, inputs, baseTemperature, puzzleCost, ri,
                   initialSolution, annealerSolutions, annealerCosts, i,
                   stored, task, solvedPuzzle, solutionFound>>

----------------------------------------------------------------------------
(* annealerInternalIterator, lines 157-193, and getNeighbour, lines 198-229 *)

(* acceptanceProbability, lines 313-315: math.Exp((oldCost - newCost) /    *)
(* temperature), kept as the class of the float64 it yields: "one" (1 or   *)
(* more), "zero" (the exponent is below -745, where Exp underflows to 0)   *)
(* or "fraction" (strictly between).  Temperatures are in units of 1e-6.   *)
acceptanceProbability(oldCost, newCost, temperature) ==
    IF oldCost - newCost >= 0 THEN "one"
    ELSE IF (newCost - oldCost) * 1000000 > 745 * temperature THEN "zero"
    ELSE "fraction"

(* line 183: ap > rand.Float64(), the draw being anywhere in [0, 1) *)
MayAccept(ap) == ap # "zero"

MayRejectAlways(ap) == TRUE

MayReject(ap) == ap # "one"

(* lines 214 and 219: the loop conditions of the rejection sampling *)
IsClueUnchecked(h, x, y) == FALSE

IsClue(h, x, y) == h[originalPuzzle][x][y] > 0

(* line 225: a parallel assignment, both cells read before either is written *)
SwapCellsOverwrite(puzzle, x1, y1, x2, y2) ==
    SetCell(SetCell(puzzle, x1, y1, puzzle[x2][y2]), x2, y2, puzzle[x2][y2])

SwapCells(puzzle, x1, y1, x2, y2) ==
    SetCell(SetCell(puzzle, x1, y1, puzzle[x2][y2]), x2, y2, puzzle[x1][y1])

(* lines 160-161 *)
IteratorStart(t) ==
    /\ task[t].pc = "start"
    /\ LET target == copyPuzzleTarget(heap, task[t].candidateSolution)
           h == Store(heap, target, copyPuzzle(heap[task[t].candidateSolution]))
       IN  /\ task' = [task EXCEPT
                ![t].pc = "loop",
                ![t].updatedSolution = target,
                ![t].updatedCost = costFunction(h[target], blockXDim, blockYDim),
                ![t].i = 0]
           /\ heap' = h
    /\ UNCHANGED <<inputs, baseTemperature, puzzleCost, pc, ri, initialSolution,
                   annealerSolutions, annealerCosts, i, stored, solvedPuzzle,
                   solutionFound>>

(* line 163, condition true, line 164 and lines 200-203 *)
IteratorPropose(t) ==
    /\ task[t].pc = "loop"
    /\ task[t].i < internalIterations
    /\ LET target == copyPuzzleTarget(heap, task[t].updatedSolution)
       IN  /\ heap' = Store(heap, target, copyPuzzle(heap[task[t].updatedSolution]))
           /\ task' = [task EXCEPT ![t].pc = "swap",
                                   ![t].newCandidateSolution = target,
                                   ![t].swap = 0]
    /\ UNCHANGED <<inputs, baseTemperature, puzzleCost, pc, ri, initialSolution,
                   annealerSolutions, annealerCosts, i, stored, solvedPuzzle,
                   solutionFound>>

(* line 163, condition false, and line 190: the send of the grid blocks *)
IteratorFinish(t) ==
    /\ task[t].pc = "loop"
    /\ ~(task[t].i < internalIterations)
    /\ task' = [task EXCEPT ![t].pc = "sendSolution",
                            ![t].sendSolution = task[t].updatedSolution,
                            ![t].sendCost = task[t].updatedCost]
    /\ UNCHANGED <<heap, inputs, baseTemperature, puzzleCost, pc, ri,
                   initialSolution, annealerSolutions, annealerCosts, i,
                   stored, solvedPuzzle, solutionFound>>

(* line 205, condition true, and lines 206-210 *)
GetNeighbourDraw(t) ==
    /\ task[t].pc = "swap"
    /\ task[t].swap < swapCount
    /\ LET puzzleDim == Len2(heap[originalPuzzle])
       IN  \E x1 \in Idx(puzzleDim), y1 \in Idx(puzzleDim),
              x2 \in Idx(puzzleDim), y2 \in Idx(puzzleDim) :
                task' = [task EXCEPT ![t].pc = "resample",
                                     ![t].randomXIndex1 = x1,
                                     ![t].randomYIndex1 = y1,
                                     ![t].randomXIndex2 = x2,
                                     ![t].randomYIndex2 = y2]
    /\ UNCHANGED <<heap, inputs, baseTemperature, puzzleCost, pc, ri,
                   initialSolution, annealerSolutions, annealerCosts, i,
                   stored, solvedPuzzle, solutionFound>>

(* lines 214-217: the first cell is a clue and is drawn again *)
GetNeighbourResample1(t) ==
    /\ task[t].pc = "resample"
    /\ IsClue(heap, task[t].randomXIndex1, task[t].randomYIndex1)
    /\ LET puzzleDim == Len2(heap[originalPuzzle])
       IN  \E x1 \in Idx(puzzleDim), y1 \in Idx(puzzleDim) :
                task' = [task EXCEPT ![t].randomXIndex1 = x1,
                                     ![t].randomYIndex1 = y1]
    /\ UNCHANGED <<heap, inputs, baseTemperature, puzzleCost, pc, ri,
                   initialSolution, annealerSolutions, annealerCosts, i,
                   stored, solvedPuzzle, solutionFound>>

(* lines 219-222: the second cell is a clue and is drawn again *)
GetNeighbourResample2(t) ==
    /\ task[t].pc = "resample"
    /\ ~IsClue(heap, task[t].randomXIndex1, task[t].randomYIndex1)
    /\ IsClue(heap, task[t].randomXIndex2, task[t].randomYIndex2)
    /\ LET puzzleDim == Len2(heap[originalPuzzle])
       IN  \E x2 \in Idx(puzzleDim), y2 \in Idx(puzzleDim) :
                task' = [task EXCEPT ![t].randomXIndex2 = x2,
                                     ![t].randomYIndex2 = y2]
    /\ UNCHANGED <<heap, inputs, baseTemperature, puzzleCost, pc, ri,
                   initialSolution, annealerSolutions, annealerCosts, i,
                   stored, solvedPuzzle, solutionFound>>

(* line 225: the grid written is neighbourPuzzle, the copy of line 203 *)
SwapTargetCurrent(t) == task[t].updatedSolution

SwapTarget(t) == task[t].newCandidateSolution

(* line 225: both cells are blank in the clue grid; their values trade places *)
GetNeighbourSwap(t) ==
    /\ task[t].pc = "resample"
    /\ ~IsClue(heap, task[t].randomXIndex1, task[t].randomYIndex1)
    /\ ~IsClue(heap, task[t].randomXIndex2, task[t].randomYIndex2)
    /\ heap' = [heap EXCEPT ![SwapTarget(t)] =
                    SwapCells(@, task[t].randomXIndex1, task[t].randomYIndex1,
                                 task[t].randomXIndex2, task[t].randomYIndex2)]
    /\ task' = [task EXCEPT ![t].pc = "swap",
                            ![t].swap = @ + 1,
                            ![t].randomXIndex1 = 0, ![t].randomYIndex1 = 0,
                            ![t].randomXIndex2 = 0, ![t].randomYIndex2 = 0]
    /\ UNCHANGED <<inputs, baseTemperature, puzzleCost, pc, ri, initialSolution,
                   annealerSolutions, annealerCosts, i, stored, solvedPuzzle,
                   solutionFound>>

(* The cost of line 165, once getNeighbour has returned (line 228) *)
NewCandidateCost(t) ==
    costFunction(heap[task[t].newCandidateSolution], blockXDim, blockYDim)

Returned(t) == task[t].pc = "swap" /\ ~(task[t].swap < swapCount)

(* lines 168-172: cost zero, the send of the grid blocks *)
IteratorSolved(t) ==
    /\ Returned(t)
    /\ NewCandidateCost(t) = 0
    /\ task' = [task EXCEPT ![t].pc = "sendSolution",
                            ![t].newCandidateCost = 0,
                            ![t].sendSolution = task[t].newCandidateSolution,
                            ![t].sendCost = 0]
    /\ UNCHANGED <<heap, inputs, baseTemperature, puzzleCost, pc, ri,
                   initialSolution, annealerSolutions, annealerCosts, i,
                   stored, solvedPuzzle, solutionFound>>

(* lines 175-177, or lines 181-186 with ap above the draw *)
IteratorAccept(t) ==
    /\ Returned(t)
    /\ NewCandidateCost(t) # 0
    /\ \/ NewCandidateCost(t) < task[t].updatedCost
       \/ /\ ~(NewCandidateCost(t) < task[t].updatedCost)
          /\ MayAccept(acceptanceProbability(task[t].updatedCost,
                            NewCandidateCost(t), task[t].temperature))
    /\ LET kept == Collect(heap, annealerSolutions,
                    [task EXCEPT ![t].pc = "loop",
                                 ![t].updatedSolution = task[t].newCandidateSolution,
                                 ![t].updatedCost = NewCandidateCost(t),
                                 ![t].newCandidateSolution = NULL,
                                 ![t].swap = 0,
                                 ![t].i = @ + 1])
       IN  /\ heap' = kept.heap
           /\ annealerSolutions' = kept.annealerSolutions
           /\ task' = kept.task
    /\ UNCHANGED <<inputs, baseTemperature, puzzleCost, pc, ri, initialSolution,
                   annealerCosts, i, stored, solvedPuzzle, solutionFound>>

(* lines 181-187 with ap not above the draw *)
IteratorReject(t) ==
    /\ Returned(t)
    /\ NewCandidateCost(t) # 0
    /\ ~(NewCandidateCost(t) < task[t].updatedCost)
    /\ MayReject(acceptanceProbability(task[t].updatedCost,
                        NewCandidateCost(t), task[t].temperature))
    /\ LET kept == Collect(heap, annealerSolutions,
                    [task EXCEPT ![t].pc = "loop",
                                 ![t].newCandidateSolution = NULL,
                                 ![t].swap = 0,
                                 ![t].i = @ + 1])
       IN  /\ heap' = kept.heap
           /\ annealerSolutions' = kept.annealerSolutions
           /\ task' = kept.task
    /\ UNCHANGED <<inputs, baseTemperature, puzzleCost, pc, ri, initialSolution,
                   annealerCosts, i, stored, solvedPuzzle, solutionFound>>

----------------------------------------------------------------------------
(* The program *)

Next ==
    \/ MainPuzzleCost
    \/ MainPuzzleCostPanic
    \/ MainAnneal
    \/ RandomInitializationScan
    \/ RandomInitializationRange
    \/ RandomInitializationPlace
    \/ RandomInitializationPanic
    \/ RandomInitializationReturn
    \/ AnnealSetup
    \/ AnnealLoop
    \/ AnnealReturnUnsolved
    \/ AnnealLaunch
    \/ AnnealRecvSolution
    \/ AnnealRecvCost
    \/ AnnealExchange
    \/ AnnealReturnSolved
    \/ AnnealCool
    \/ AnnealIndexPanic
    \/ \E t \in DOMAIN task : IteratorStart(t)
    \/ \E t \in DOMAIN task : IteratorPropose(t)
    \/ \E t \in DOMAIN task : IteratorFinish(t)
    \/ \E t \in DOMAIN task : GetNeighbourDraw(t)
    \/ \E t \in DOMAIN task : GetNeighbourResample1(t)
    \/ \E t \in DOMAIN task : GetNeighbourResample2(t)
    \/ \E t \in DOMAIN task : GetNeighbourSwap(t)
    \/ \E t \in DOMAIN task : IteratorSolved(t)
    \/ \E t \in DOMAIN task : IteratorAccept(t)
    \/ \E t \in DOMAIN task : IteratorReject(t)

Spec == Init /\ [][Next]_vars

(* Scheduling.  The Go scheduler runs every goroutine that can run, and the *)
(* draws of rand.Intn are fair: a loop that redraws a cell for ever, while  *)
(* a blank cell can be drawn, has probability 0.                            *)
DrawsBlank1(t) ==
    /\ t \in DOMAIN task
    /\ GetNeighbourResample1(t)
    /\ ~IsClue(heap, task'[t].randomXIndex1, task'[t].randomYIndex1)

DrawsBlank2(t) ==
    /\ t \in DOMAIN task
    /\ GetNeighbourResample2(t)
    /\ ~IsClue(heap, task'[t].randomXIndex2, task'[t].randomYIndex2)

(* The rungs of the configurations of Init *)
RungIds == Idx(MaxAnnealers) \cup Idx(3)

FairSpec ==
    /\ Spec
    /\ WF_vars(Next)
    /\ \A t \in RungIds :
        SF_vars(DrawsBlank1(t)) /\ SF_vars(DrawsBlank2(t))

----------------------------------------------------------------------------
(* costFunction on its own: main's call of line 436 on any full grid *)

CostDims == {<<1, 2>>, <<2, 1>>, <<1, 3>>, <<3, 1>>, <<2, 2>>, <<2, 3>>, <<3, 2>>}

(* A grid with every digit once in every row, every column and every block *)
(* of r rows and c columns                                                 *)
LatinBlocks(r, c) ==
    [x \in Idx(r * c) |-> [y \in Idx(r * c) |->
        (((x % r) * c + (x \div r) + y) % (r * c)) + 1]]

(* edits[k] is a column and a value for row k-1 *)
RECURSIVE Edited(_, _, _)
Edited(puzzle, edits, k) ==
    IF k = 0 THEN puzzle
    ELSE Edited(SetCell(puzzle, k - 1, edits[k][1], edits[k][2]), edits, k - 1)

(* Of side 2 every grid, blanks included; of side 3 every grid whose blanks *)
(* lie in row 0; of side 4 the grids CostEdits edits away, and of side 6    *)
(* the grids two edits away, from a grid valid for blocks of bx rows or for *)
(* blocks of by rows, the edit of row 0 being a digit or a blank.           *)
CostGrids(bx, by) ==
    LET n == bx * by
        low == IF n = 2 THEN 0 ELSE 1
        count == IF n > 4 THEN 2 ELSE CostEdits
    IN  IF n <= 3
        THEN {[r \in Idx(n) |-> IF r = 0 THEN top ELSE rest[r]] :
                top \in [Idx(n) -> 0 .. n],
                rest \in [1 .. (n - 1) -> [Idx(n) -> low .. n]]}
        ELSE {Edited(base, [k \in 1 .. count |->
                                IF k = 1 THEN first ELSE others[k]], count) :
                base \in {LatinBlocks(bx, by), LatinBlocks(by, bx)},
                first \in Idx(n) \X (0 .. n),
                others \in [2 .. count -> Idx(n) \X (1 .. n)]}

CostInit ==
    \E d \in CostDims :
      \E puzzle \in CostGrids(d[1], d[2]) :
        /\ heap = Store(<<>>, 1, puzzle)
        /\ originalPuzzle = 1
        /\ blockXDim = d[1]
        /\ blockYDim = d[2]
        /\ baseTemperature = finalTemperature
        /\ coolingRate = 1
        /\ internalIterations = 1
        /\ swapCount = 1
        /\ concurrentAnnealerCount = 1
        /\ puzzleCost = 0
        /\ pc = "main"
        /\ ri = IdleInit
        /\ initialSolution = NULL
        /\ annealerSolutions = <<>>
        /\ annealerCosts = <<>>
        /\ i = 0
        /\ stored = {}
        /\ task = [r \in Idx(1) |-> IdleTask]
        /\ solvedPuzzle = NULL
        /\ solutionFound = FALSE

CostNext == MainPuzzleCost

CostSpec == CostInit /\ [][CostNext]_vars

----------------------------------------------------------------------------
(* Vocabulary of the properties *)

puzzleDim == blockXDim * blockYDim

Cells == Idx(puzzleDim) \X Idx(puzzleDim)

ClueGrid == heap[originalPuzzle]

BlankCells == {cell \in Cells : ClueGrid[cell[1]][cell[2]] = 0}

(* The clue grid holds values in 0..n and no digit more than n times *)
FeasibleClues ==
    /\ \A cell \in Cells : ClueGrid[cell[1]][cell[2]] \in 0 .. puzzleDim
    /\ \A number \in 1 .. puzzleDim : Occurrences(ClueGrid, number) <= puzzleDim

(* A configuration outside the documented ranges of -a, -c, -i and -s *)
Degenerate ==
    \/ concurrentAnnealerCount = 0
    \/ coolingRate <= 0
    \/ coolingRate >= 100
    \/ internalIterations <= 0
    \/ swapCount <= 0

KeepsClues(puzzle) ==
    \A cell \in Cells :
        ClueGrid[cell[1]][cell[2]] > 0 =>
            puzzle[cell[1]][cell[2]] = ClueGrid[cell[1]][cell[2]]

Running(t) == task[t].pc # "idle"

Rungs == Idx(concurrentAnnealerCount)

(* anneal is past line 124: the rung slots exist *)
SlotsMade == pc \in {"loop", "fanout", "recvSolution", "recvCost", "check", "done"}

(* The candidate grids the program holds: the grid randomInitialization *)
(* builds and returns, the rung slots, the grids of the goroutines and  *)
(* the grid anneal returns.                                             *)
CandidateGrids ==
    ({ri.initializedPuzzle, initialSolution, solvedPuzzle}
        \cup {annealerSolutions[r] : r \in DOMAIN annealerSolutions}
        \cup UNION {{task[t].candidateSolution, task[t].updatedSolution,
                     task[t].newCandidateSolution, task[t].sendSolution}
                    : t \in DOMAIN task})
    \ {NULL}

----------------------------------------------------------------------------
(* C1: every candidate grid the program holds, from the grid                *)
(* randomInitialization builds to the grid anneal returns, carries the clue *)
(* value at every clue cell.                                                *)
C1_CluesKept == \A a \in CandidateGrids : KeepsClues(heap[a])

(* A proposal that differs from the current grid, on a puzzle with clues *)
C1_Witness ==
    \E t \in DOMAIN task :
        /\ task[t].pc = "swap"
        /\ task[t].swap > 0
        /\ heap[task[t].newCandidateSolution] # heap[task[t].updatedSolution]
        /\ BlankCells # Cells
        /\ stored # {}

(* C2: anneal reports solved exactly when the grid it returns has cost 0, *)
(* for every feasible clue grid, every configuration in the documented    *)
(* ranges and every base temperature above zero.                          *)
C2_SolvedIffZeroCost ==
    (pc = "done" /\ FeasibleClues /\ ~Degenerate) =>
        (solutionFound <=> costFunction(heap[solvedPuzzle], blockXDim, blockYDim) = 0)

(* C3: on a grid of digits 1..n the cost is 0 exactly when every digit    *)
(* occurs once in every row, every column and every scored block, and the *)
(* scored blocks are n disjoint rectangles of n cells covering the grid.   *)
ScoredBlock(bi, bj) ==
    {BlockCell(bi, bj, k, blockXDim, blockYDim) : k \in Idx(puzzleDim)}

ScoredBlocks == {ScoredBlock(b[1], b[2]) : b \in Idx(blockYDim) \X Idx(blockXDim)}

IsRectangle(block) ==
    LET rows == {cell[1] : cell \in block}
        cols == {cell[2] : cell \in block}
    IN  /\ block = rows \X cols
        /\ \A x \in Idx(puzzleDim) :
            (\E lo, hi \in rows : lo <= x /\ x <= hi) => x \in rows
        /\ \A y \in Idx(puzzleDim) :
            (\E lo, hi \in cols : lo <= y /\ y <= hi) => y \in cols

BlocksPartition ==
    /\ Cardinality(ScoredBlocks) = puzzleDim
    /\ \A block \in ScoredBlocks :
        Cardinality(block) = puzzleDim /\ IsRectangle(block)
    /\ \A b1, b2 \in ScoredBlocks : b1 # b2 => b1 \cap b2 = {}
    /\ UNION ScoredBlocks = Cells

ValidSolution(puzzle) ==
    /\ \A x \in Idx(puzzleDim) :
        {puzzle[x][y] : y \in Idx(puzzleDim)} = 1 .. puzzleDim
    /\ \A y \in Idx(puzzleDim) :
        {puzzle[x][y] : x \in Idx(puzzleDim)} = 1 .. puzzleDim
    /\ \A block \in ScoredBlocks :
        {puzzle[cell[1]][cell[2]] : cell \in block} = 1 .. puzzleDim

C3_ZeroCostIffValid ==
    pc = "printed" =>
        /\ BlocksPartition
        /\ puzzleCost = 0 <=> ValidSolution(ClueGrid)

(* A valid 6x6 grid with blocks that are not square, scored 0 *)
C3_Witness ==
    /\ pc = "printed"
    /\ blockXDim = 2
    /\ blockYDim = 3
    /\ puzzleCost = 0
    /\ ValidSolution(ClueGrid)

(* C4: on a feasible clue grid and a configuration in the documented *)
(* ranges anneal terminates and returns a grid                       *)
C4_Terminates ==
    (FeasibleClues /\ ~Degenerate) => <>(pc = "done" /\ solvedPuzzle # NULL)

(* C5: on a clue grid with no blank cell that is a valid solution, a        *)
(* configuration in the documented ranges and a base temperature above the  *)
(* floor, anneal terminates, reports solved and returns a grid of cost 0     *)
(* equal to the input.                                                       *)
C5_SolvedInputReported ==
    (BlankCells = {} /\ ValidSolution(ClueGrid) /\ ~Degenerate
        /\ baseTemperature > finalTemperature) =>
            <>(/\ pc = "done"
               /\ solutionFound
               /\ heap[solvedPuzzle] = ClueGrid
               /\ costFunction(heap[solvedPuzzle], blockXDim, blockYDim) = 0)

(* C6: the exchange pass keeps the multiset of (grid, cost) pairs of the  *)
(* rung slots and touches no grid, and the slots number                   *)
(* concurrentAnnealerCount from their creation on.                        *)
SlotPairs(slots, costs) ==
    LET pairs == {<<slots[r], costs[r]>> : r \in DOMAIN slots}
    IN  [pair \in pairs |->
            Cardinality({r \in DOMAIN slots : <<slots[r], costs[r]>> = pair})]

C6_ExchangeKeepsReplicas ==
    [][ /\ (pc = "fanout" /\ pc' = "check") =>
            /\ SlotPairs(annealerSolutions', annealerCosts')
                = SlotPairs(annealerSolutions, annealerCosts)
            /\ heap' = heap
        /\ SlotsMade' =>
            /\ DOMAIN annealerSolutions' = Rungs
            /\ DOMAIN annealerCosts' = Rungs ]_vars

(* After the last receive the slots hold ascending addresses (Collect), so *)
(* a descending pair right after the pass is a pair the pass has traded.   *)
C6_Witness ==
    /\ pc = "check"
    /\ concurrentAnnealerCount >= 2
    /\ annealerSolutions[0] > annealerSolutions[1]
    /\ annealerCosts[0] < annealerCosts[1]

(* C7: on a feasible clue grid randomInitialization returns, without a     *)
(* panic, a grid that keeps every clue, holds a digit 1..n in every cell   *)
(* and holds each digit exactly n times.                                   *)
C7_InitializationFeasible ==
    FeasibleClues =>
        /\ ~(pc = "panic" /\ ri # IdleInit)
        /\ pc = "setup" =>
            /\ KeepsClues(heap[initialSolution])
            /\ \A cell \in Cells :
                    heap[initialSolution][cell[1]][cell[2]] \in 1 .. puzzleDim
            /\ \A number \in 1 .. puzzleDim :
                    Occurrences(heap[initialSolution], number) = puzzleDim

C7_Witness ==
    /\ pc = "setup"
    /\ FeasibleClues
    /\ Cardinality(BlankCells) >= 3
    /\ BlankCells # Cells

(* C8: when anneal waits at a receive, every rung's goroutine of this outer *)
(* step has been launched: it is in flight or its result is stored.         *)
C8_AllLaunchedBeforeJoin ==
    pc \in {"recvSolution", "recvCost"} =>
        \A r \in Rungs : Running(r) \/ r \in stored

(* C9: the exchange pass, the convergence check and the cooling act on the *)
(* results of this outer step only: every rung's slot has been written in  *)
(* this step, no goroutine is in flight, and each slot's cost is the cost  *)
(* of its grid.                                                            *)
C9_FanInBarrier ==
    (pc = "check" \/ (pc = "fanout" /\ ~(i < AnnealFanoutBound))) =>
        /\ stored = Rungs
        /\ \A t \in DOMAIN task : ~Running(t)
        /\ \A r \in Rungs :
            annealerCosts[r] = costFunction(heap[annealerSolutions[r]],
                                            blockXDim, blockYDim)

(* The check of a second outer step, over two rungs or more *)
C9_Witness ==
    /\ pc = "check"
    /\ concurrentAnnealerCount >= 2
    /\ baseTemperature \notin BaseTemperatures
    /\ annealerCosts[0] # annealerCosts[1]

(* C10: the rung slots hold pairwise distinct grids; the grids a goroutine *)
(* holds are held by no other goroutine and by no other rung's slot; and   *)
(* the grid getNeighbour writes is reachable from nowhere else.            *)
TaskGrids(t) ==
    {task[t].candidateSolution, task[t].updatedSolution,
     task[t].newCandidateSolution, task[t].sendSolution} \ {NULL}

C10_ExclusiveOwnership ==
    /\ SlotsMade =>
        \A r1, r2 \in Rungs :
            r1 # r2 => annealerSolutions[r1] # annealerSolutions[r2]
    /\ \A t \in DOMAIN task :
        /\ \A r \in (DOMAIN annealerSolutions) \ {t} :
                annealerSolutions[r] \notin TaskGrids(t)
        /\ \A u \in (DOMAIN task) \ {t} : TaskGrids(t) \cap TaskGrids(u) = {}
        /\ task[t].pc \in {"swap", "resample"} =>
            /\ task[t].newCandidateSolution \notin
                    {originalPuzzle, initialSolution, task[t].candidateSolution,
                     task[t].updatedSolution}
            /\ \A r \in DOMAIN annealerSolutions :
                    annealerSolutions[r] # task[t].newCandidateSolution

(* The goroutine of rung 1 has written its proposal, rung 0 being stored *)
C10_Witness ==
    \E t \in DOMAIN task :
        /\ t >= 1
        /\ task[t].pc = "swap"
        /\ task[t].swap > 0
        /\ heap[task[t].newCandidateSolution] # heap[task[t].updatedSolution]
        /\ annealerSolutions[0] # task[t].candidateSolution

(* C11: on a clue grid that holds a value outside 0..n, or a digit more  *)
(* than n times, the program stops before randomInitialization places a  *)
(* digit: no digit is ever placed, and no run-time panic (an index out of *)
(* range in costFunction, a draw from an empty list of spots in           *)
(* randomInitialization) is ever reached.                                 *)
C11_InvalidCluesRejected ==
    ~FeasibleClues =>
        /\ pc # "panic"
        /\ pc = "init" =>
            heap[ri.initializedPuzzle] = ScanInitializedPuzzle(ClueGrid)
        /\ ~SlotsMade

(* C12: with no annealer, a cooling rate outside (0,1) or an iteration or *)
(* swap count below 1, anneal stops before its outer loop: the loop body  *)
(* is never entered and the slot of rung 0 is never indexed while there   *)
(* is none.                                                               *)
C12_DegenerateRejected ==
    Degenerate =>
        /\ pc \notin {"fanout", "recvSolution", "recvCost", "check"}
        /\ ~(pc = "panic" /\ concurrentAnnealerCount = 0)

(* C13: a run is decided by the clue grid, the configuration and the      *)
(* sequence of pseudorandom draws.  When randomInitialization is about to *)
(* return, every run on the same clue grid and the same draws, whatever   *)
(* order the range over remainingNumbers takes, has built the same grid;  *)
(* anneal hands a copy of that grid to every rung, and returns it when    *)
(* the base temperature is at the floor.                                  *)
InitializationOver ==
    /\ pc = "init"
    /\ ri.i >= ri.count
    /\ (DOMAIN ri.remainingNumbers) \ ri.ranged = {}

C13_Deterministic ==
    (InitializationOver /\ FeasibleClues) =>
        \A order \in RangeOrders(ri.remainingNumbers) :
            InitializedWith(ClueGrid, order, ri.draws) = heap[ri.initializedPuzzle]

(* C14: no step writes the clue grid.  While getNeighbour runs, the grid   *)
(* it builds is an instance of its own, neither the current grid nor the  *)
(* clue grid, and the current grid stays as it was, cell for cell.  A     *)
(* rejection leaves the goroutine with the current grid and the current   *)
(* cost it had before the proposal.                                       *)
InGetNeighbour(fr) == fr.pc \in {"swap", "resample"}

C14_ProposalFrame ==
    [][ /\ originalPuzzle' = originalPuzzle
        /\ heap'[originalPuzzle'] = heap[originalPuzzle]
        /\ \A t \in DOMAIN task :
            /\ InGetNeighbour(task'[t]) =>
                /\ task'[t].newCandidateSolution \notin
                        {NULL, originalPuzzle', task'[t].updatedSolution}
                /\ heap'[task'[t].updatedSolution] = heap[task[t].updatedSolution]
                /\ task'[t].updatedCost = task[t].updatedCost
            /\ IteratorReject(t) =>
                /\ heap'[task'[t].updatedSolution] = heap[task[t].updatedSolution]
                /\ task'[t].updatedCost = task[t].updatedCost
                /\ task'[t].updatedCost =
                        costFunction(heap'[task'[t].updatedSolution],
                                     blockXDim, blockYDim) ]_vars

(* getNeighbour has returned, after two swaps, a grid that differs from the *)
(* current one and costs more, at a temperature where it is rejected        *)
C14_Witness ==
    \E t \in DOMAIN task :
        /\ Returned(t)
        /\ swapCount = 2
        /\ heap[task[t].newCandidateSolution] # heap[task[t].updatedSolution]
        /\ NewCandidateCost(t) > task[t].updatedCost
        /\ acceptanceProbability(task[t].updatedCost, NewCandidateCost(t),
                                 task[t].temperature) = "zero"
        /\ BlankCells # Cells

(* C15: the cost is never negative, and the cost of a grid with blocks   *)
(* (blockXDim, blockYDim) is the cost of the transposed grid with blocks  *)
(* (blockYDim, blockXDim), for grids with values 0..n.                    *)
Transposed(puzzle) ==
    [r \in DOMAIN puzzle |-> [c \in DOMAIN puzzle |-> puzzle[c][r]]]

C15_CostTransposeInvariant ==
    pc = "printed" =>
        /\ puzzleCost >= 0
        /\ puzzleCost = costFunction(Transposed(ClueGrid), blockYDim, blockXDim)

(* A 6x6 grid with a blank, unlike its transpose, scored above 0 with *)
(* blocks that are not square                                         *)
C15_Witness ==
    /\ pc = "printed"
    /\ blockXDim = 2
    /\ blockYDim = 3
    /\ BlankCells # {}
    /\ Transposed(ClueGrid) # ClueGrid
    /\ puzzleCost > 0

(* C16: the decision of annealerInternalIterator on a proposal.  A cost of *)
(* 0 stops the search with (candidate, 0).  A cost below the current one,  *)
(* or equal to it, makes the candidate the current state.  A cost above    *)
(* the current one makes it the current state or leaves the current state, *)
(* and leaves it when the acceptance probability is 0.  Proposals are made *)
(* within the budget only; at its end the current pair is sent; and the    *)
(* cost sent is the cost of the grid sent.                                 *)
Stopped(t, puzzle) ==
    /\ task'[t].pc = "sendSolution"
    /\ heap'[task'[t].sendSolution] = puzzle
    /\ task'[t].sendCost = 0

Current(t, puzzle, cost) ==
    /\ task'[t].pc = "loop"
    /\ task'[t].i = task[t].i + 1
    /\ heap'[task'[t].updatedSolution] = puzzle
    /\ task'[t].updatedCost = cost

Decision(t) ==
    LET candidate == heap[task[t].newCandidateSolution]
        candidateCost == NewCandidateCost(t)
        current == heap[task[t].updatedSolution]
        currentCost == task[t].updatedCost
    IN  IF candidateCost = 0 THEN Stopped(t, candidate)
        ELSE IF candidateCost <= currentCost
        THEN Current(t, candidate, candidateCost)
        ELSE /\ Current(t, candidate, candidateCost)
                    \/ Current(t, current, currentCost)
             /\ acceptanceProbability(currentCost, candidateCost,
                                      task[t].temperature) = "zero"
                    => Current(t, current, currentCost)

C16_AcceptanceRule ==
    [][\A t \in DOMAIN task :
        /\ (Returned(t) /\ task'[t] # task[t]) => Decision(t)
        /\ (task[t].pc = "loop" /\ task'[t].pc = "sendSolution") =>
            /\ ~(task[t].i < internalIterations)
            /\ heap'[task'[t].sendSolution] = heap[task[t].updatedSolution]
            /\ task'[t].sendCost = task[t].updatedCost
        /\ InGetNeighbour(task'[t]) => task'[t].i < internalIterations
        /\ task'[t].pc = "sendSolution" =>
            task'[t].sendCost =
                costFunction(heap'[task'[t].sendSolution], blockXDim, blockYDim)
        /\ task'[t].pc = "sendCost" =>
            task'[t].sendCost =
                costFunction(heap'[annealerSolutions'[i']], blockXDim, blockYDim)
      ]_vars

(* A candidate of the current cost, above 0, on another grid *)
C16_Witness ==
    \E t \in DOMAIN task :
        /\ Returned(t)
        /\ NewCandidateCost(t) = task[t].updatedCost
        /\ NewCandidateCost(t) > 0
        /\ heap[task[t].newCandidateSolution] # heap[task[t].updatedSolution]

(* C17: every call of getNeighbour returns, under fair scheduling and fair *)
(* draws, on every clue grid: with a blank cell the two loops of redraws   *)
(* end, and without one the program does not get to loop in them.          *)
(* anneal has one goroutine in flight at a time (lines 130-132), so a call *)
(* has returned once no call is running.                                   *)
GetNeighbourRunning == \E t \in DOMAIN task : InGetNeighbour(task[t])

C17_GetNeighbourTerminates == GetNeighbourRunning ~> ~GetNeighbourRunning

(* C18: after the exchange pass no rung holds a cost below the cost of   *)
(* rung 0; a cost of 0 returned by any goroutine of the outer step is at  *)
(* rung 0 after the pass, and anneal then returns, in this outer step,    *)
(* solved and with a grid of cost 0.                                      *)
C18_MinimumReachesRungZero ==
    [][ /\ pc' = "check" =>
            \A r \in Rungs : annealerCosts'[0] <= annealerCosts'[r]
        /\ (pc = "fanout" /\ pc' = "check"
                /\ \E r \in DOMAIN annealerCosts : annealerCosts[r] = 0) =>
            annealerCosts'[0] = 0
        /\ (pc = "check"
                /\ \E r \in DOMAIN annealerCosts : annealerCosts[r] = 0) =>
            /\ pc' = "done"
            /\ solutionFound'
            /\ baseTemperature' = baseTemperature
            /\ costFunction(heap'[solvedPuzzle'], blockXDim, blockYDim) = 0
      ]_vars

(* Three rungs after a pass that brought a cost of 0 from rung 2 down to *)
(* rung 0 and left rungs 1 and 2 out of order (before the pass the slots *)
(* hold ascending addresses, see C6_Witness)                             *)
C18_Witness ==
    /\ pc = "check"
    /\ concurrentAnnealerCount = 3
    /\ annealerCosts[0] = 0
    /\ annealerCosts[1] > annealerCosts[2]
    /\ annealerSolutions[0] > annealerSolutions[2]
    /\ annealerSolutions[2] > annealerSolutions[1]

(* C19: on a feasible clue grid, the grid randomInitialization has        *)
(* returned, every rung's grid, every grid a goroutine holds (its         *)
(* proposal included, also between two swaps) and the grid anneal returns *)
(* hold no blank and each digit 1..n exactly n times.                     *)
FullGrids == CandidateGrids \ {ri.initializedPuzzle}

C19_DigitCounts ==
    FeasibleClues =>
        \A a \in FullGrids :
            /\ \A cell \in Cells : heap[a][cell[1]][cell[2]] # 0
            /\ \A number \in 1 .. puzzleDim :
                    Occurrences(heap[a], number) = puzzleDim

(* anneal has returned a grid that differs from the one it started from *)
C19_Witness ==
    /\ pc = "done"
    /\ FeasibleClues
    /\ BlankCells # {}
    /\ heap[solvedPuzzle] # heap[initialSolution]
    /\ concurrentAnnealerCount >= 2

(* C20: the blocks costFunction scores are the blocks printPuzzle shows  *)
(* for the same dimensions, so that a grid of cost 0 holds every digit     *)
(* once in every row, every column and every block shown.                  *)
ValidAsShown(puzzle) ==
    /\ \A x \in Idx(puzzleDim) :
        {puzzle[x][y] : y \in Idx(puzzleDim)} = 1 .. puzzleDim
    /\ \A y \in Idx(puzzleDim) :
        {puzzle[x][y] : x \in Idx(puzzleDim)} = 1 .. puzzleDim
    /\ \A block \in PrintedBlocks(blockXDim, blockYDim) :
        {puzzle[cell[1]][cell[2]] : cell \in block} = 1 .. puzzleDim

C20_ScoredBlocksAreShown ==
    pc = "printed" =>
        /\ ScoredBlocks = PrintedBlocks(blockXDim, blockYDim)
        /\ puzzleCost = 0 => ValidAsShown(ClueGrid)

====
